---- MODULE Spec2Model ----
(***************************************************************************)
(* Dendritic microcircuit network: the layer chain, the FF/FB sweeps, the  *)
(* local weight-adjustment rules and the train steps of the drivers        *)
(* (ai/sacramento_main.py, ai/experiments/AndOrExperiment.py).             *)
(*                                                                         *)
(* Real-valued potentials, activations and weights are fixed-point         *)
(* integers: the real value v is the integer v * Unit.                     *)
(***************************************************************************)
EXTENDS Integers, Sequences, FiniteSets, TLC

VARIABLES
    net,               \* "three": sacramento_main's l1,l2,l3; "two": AndOrExperiment's layers
    wt_init_seed,      \* seed of the generator the weights are drawn from at build time
    pyrs,              \* pyrs[k][i]: pyramidal neuron i of layer k
    inhibs,            \* inhibs[k][i]: interneuron i of layer k
    wts_pp_ff,         \* wts_pp_ff[k][i][j]: FF weight into pyr i of layer k from pyr j of layer k-1
    wts_pp_fb,         \* wts_pp_fb[k][i][j]: FB weight into pyr i of layer k from pyr j of layer k+1
    wts_pi,            \* wts_pi[k][i][j]: lateral weight into pyr i of layer k from inhib j of layer k
    wts_ip,            \* wts_ip[k][i][j]: lateral weight into inhib i of layer k from pyr j of layer k
    rule13_post_data,  \* sacramento_main's module-level log of Rule 13 data points
    current_step,      \* AndOrExperiment._current_step
    nudge_steps,       \* AndOrExperiment._nudge_steps
    current_X_index,   \* AndOrExperiment._current_X_index (-1: None)
    metrics_len,       \* number of samples recorded per input pattern (self._metrics[...][i])
    pc,                \* the calls the running train step (or caller) has still to make
    log,               \* the calls made so far by the running train step (or caller)
    step,              \* which function is running, and its nudge_predicate
    snap,              \* the neuron state when the running function was entered
    before,            \* the neuron state and the weights just before the last call
    err,               \* the error raised by the last call ("none" if it returned)
    n_steps,           \* train steps started so far
    n_calls,           \* direct calls of layer operations made so far
    run,               \* the experiment run in progress: its remaining statements and history
    parse              \* the trace files of VisualExtractor and what NeuronParser made of them

vars == << net, wt_init_seed, pyrs, inhibs, wts_pp_ff, wts_pp_fb, wts_pi, wts_ip,
           rule13_post_data, current_step, nudge_steps, current_X_index, metrics_len,
           pc, log, step, snap, before, err, n_steps, n_calls, run, parse >>

weights == << wts_pp_ff, wts_pp_fb, wts_pi, wts_ip >>
neurons == << pyrs, inhibs >>

\* Fixed-point resolution: the real value 1.0 is the integer Unit.
Unit == 10
\* Denominator of the learning rate of the weight-adjustment rules.
LearningRateDen == 2

\* Bounds of the model.
MaxSteps == 2
MaxCalls == 1
MaxSeed == 1

----------------------------------------------------------------------------
\* Architecture

\* Number of layers of the chain.
n_layers(n) == IF n = "three" THEN 3 ELSE 2

Layers == 1..n_layers(net)

\* Pyramidal and interneuron counts per layer.
n_pyrs(n, k) == IF n = "three" THEN << 2, 3, 2 >>[k] ELSE << 2, 3 >>[k]

n_inhibs(n, k) == IF n = "three" THEN << 1, 3, 0 >>[k] ELSE << 1, 0 >>[k]

\* AndOrExperiment's input patterns and labels (index k of the code is k+1 here).
X == << << 0, 0 >>, << 0, Unit >>, << Unit, 0 >>, << Unit, Unit >> >>

Y == << << 0, 0, 0 >>, << 0, Unit, Unit >>, << 0, Unit, Unit >>, << Unit, Unit, 0 >> >>

----------------------------------------------------------------------------
\* Numeric helpers

Clamp(x, lo, hi) == IF x < lo THEN lo ELSE IF x > hi THEN hi ELSE x

\* The squashing nonlinearity: monotone, logsig(0) = 1/2, slope 1/4 at 0, bounded to [0, 1].
logsig(x) == Clamp((Unit \div 2) + (x \div 4), 0, Unit)

RECURSIVE SumTo(_, _)
SumTo(f, n) == IF n = 0 THEN 0 ELSE f[n] + SumTo(f, n - 1)

\* Weighted sum of the activations a under the weight row w (both fixed-point).
Dot(w, a) == SumTo([j \in DOMAIN w |-> w[j] * a[j]], Len(w)) \div Unit

pyr_soma_acts(ps) == [i \in DOMAIN ps |-> ps[i].soma_act]

inhib_soma_acts(is) == [i \in DOMAIN is |-> is[i].soma_act]

----------------------------------------------------------------------------
\* Network construction

\* The n-th draw of the generator seeded with s: one of 0, +-1/2, +-1.
draw(s, n) ==
    LET v == (s * (n + 1)) % 5
    IN  IF v % 2 = 1 THEN ((v + 1) \div 2) * (Unit \div 2)
        ELSE 0 - ((v \div 2) * (Unit \div 2))

\* A rows x cols matrix filled from the generator, starting at draw number base.
Matrix(s, base, rows, cols) ==
    [i \in 1..rows |-> [j \in 1..cols |-> draw(s, base + (i - 1) * cols + j)]]

new_pyr == [apical_mp |-> 0, basal_mp |-> 0, soma_mp |-> 0, soma_act |-> 0]

new_inhib == [dend_mp |-> 0, soma_mp |-> 0, soma_act |-> 0]

\* build_small_three_layer_network / build_small_two_layer_network: the state of
\* the chain n built from seed s. Matrices a layer does not have are empty.
build_pyrs(n) == [k \in 1..n_layers(n) |-> [i \in 1..n_pyrs(n, k) |-> new_pyr]]

build_inhibs(n) == [k \in 1..n_layers(n) |-> [i \in 1..n_inhibs(n, k) |-> new_inhib]]

build_wts_pp_ff(n, s) ==
    [k \in 1..n_layers(n) |->
        IF k = 1 THEN << >>
        ELSE Matrix(s, 40 * k, n_pyrs(n, k), n_pyrs(n, k - 1))]

build_wts_pp_fb(n, s) ==
    [k \in 1..n_layers(n) |->
        IF k = n_layers(n) THEN << >>
        ELSE Matrix(s, 40 * k + 10, n_pyrs(n, k), n_pyrs(n, k + 1))]

build_wts_pi(n, s) ==
    [k \in 1..n_layers(n) |->
        IF n_inhibs(n, k) = 0 THEN << >>
        ELSE Matrix(s, 40 * k + 20, n_pyrs(n, k), n_inhibs(n, k))]

build_wts_ip(n, s) ==
    [k \in 1..n_layers(n) |->
        IF n_inhibs(n, k) = 0 THEN << >>
        ELSE Matrix(s, 40 * k + 30, n_inhibs(n, k), n_pyrs(n, k))]

----------------------------------------------------------------------------
\* Layer operations (pure: the new value of what the operation writes)

\* The stimulus apply_inputs uses when the caller passes none (sacramento_main).
default_inputs(ps) == [i \in DOMAIN ps |-> Unit \div 2]

\* apply_inputs that checks the length only when it runs out of stimulus values.
apply_inputs_partial(ps, vec) ==
    [err |-> IF Len(vec) # Len(ps) THEN "DimensionMismatch" ELSE "none",
     pyrs |-> [i \in DOMAIN ps |->
                 IF i > Len(vec) THEN ps[i]
                 ELSE [ps[i] EXCEPT !.basal_mp = vec[i], !.soma_mp = vec[i],
                                    !.soma_act = logsig(vec[i])]]]

\* apply_inputs: basal potential set from the stimulus, soma derived from it.
\* Precondition: Len(vec) = number of pyramidal neurons, else DimensionMismatch.
apply_inputs(ps, vec) ==
    IF Len(vec) # Len(ps)
    THEN [err |-> "DimensionMismatch", pyrs |-> ps]
    ELSE [err |-> "none",
          pyrs |-> [i \in DOMAIN ps |->
                      [ps[i] EXCEPT !.basal_mp = vec[i], !.soma_mp = vec[i],
                                    !.soma_act = logsig(vec[i])]]]

\* update_pyrs_basal_and_soma_ff: basal = FF weights x upstream activations.
update_pyrs_basal_and_soma_ff(ps, wff, ups) ==
    [i \in DOMAIN ps |->
        LET b == Dot(wff[i], pyr_soma_acts(ups))
        IN  [ps[i] EXCEPT !.basal_mp = b, !.soma_mp = b, !.soma_act = logsig(b)]]

\* update_dend_mps_via_ip: dendrite = IP weights x own pyramidal activations.
update_dend_mps_via_ip(is, wip, ps) ==
    [i \in DOMAIN is |->
        LET d == Dot(wip[i], pyr_soma_acts(ps))
        IN  [is[i] EXCEPT !.dend_mp = d, !.soma_mp = d, !.soma_act = logsig(d)]]

\* apical_of with the interneuron activations subtracted unweighted.
apical_of_unweighted_inhibition(wfb_i, wpi_i, downs, is) ==
    Dot(wfb_i, pyr_soma_acts(downs)) - SumTo(inhib_soma_acts(is), Len(is))

\* The apical potential of pyramidal neuron i: feedback minus lateral inhibition.
apical_of(wfb_i, wpi_i, downs, is) ==
    Dot(wfb_i, pyr_soma_acts(downs)) - Dot(wpi_i, inhib_soma_acts(is))

\* update_pyrs_apical_soma_fb: apical from the downstream layer and own interneurons.
update_pyrs_apical_soma_fb(ps, wfb, wpi, downs, is) ==
    [i \in DOMAIN ps |->
        LET a == apical_of(wfb[i], wpi[i], downs, is)
        IN  [ps[i] EXCEPT !.apical_mp = a,
                          !.soma_mp = ps[i].basal_mp + a,
                          !.soma_act = logsig(ps[i].basal_mp + a)]]

\* blend with the two weights exchanged.
blend_swapped(cur, target, lam) == (lam[1] * cur + (lam[2] - lam[1]) * target) \div lam[2]

\* (1 - lambda) * current + lambda * target, lambda = lam[1] / lam[2].
blend(cur, target, lam) == ((lam[2] - lam[1]) * cur + lam[1] * target) \div lam[2]

\* nudge_output_layer_neurons: every somatic activation blended toward its target.
\* Valid on the terminal layer only (no downstream layer, no interneurons), else
\* InvalidLayerRole.
nudge_output_layer_neurons(ps, wfb, is, targets, lam) ==
    IF wfb # << >> \/ is # << >>
    THEN [err |-> "InvalidLayerRole", pyrs |-> ps]
    ELSE [err |-> "none",
          pyrs |-> [i \in DOMAIN ps |->
                      [ps[i] EXCEPT !.soma_act = blend(ps[i].soma_act, targets[i], lam)]]]

\* adjust_wts_lat_pi (Rule 16b): PI weights follow apical potential x interneuron activation.
adjust_wts_lat_pi(wpi, ps, is) ==
    [i \in DOMAIN wpi |->
        [j \in DOMAIN wpi[i] |->
            wpi[i][j] + ((ps[i].apical_mp * is[j].soma_act) \div (Unit * LearningRateDen))]]

\* Rule 13's postsynaptic factor: somatic activation minus the basal prediction.
post_value(p) == p.soma_act - logsig(p.basal_mp)

\* adjust_wts_pp_ff (Rule 13): FF weights follow postsynaptic factor x upstream activation.
adjust_wts_pp_ff(wff, ps, ups) ==
    [i \in DOMAIN wff |->
        [j \in DOMAIN wff[i] |->
            wff[i][j] + ((post_value(ps[i]) * ups[j].soma_act) \div (Unit * LearningRateDen))]]

\* The diagnostic record adjust_wts_pp_ff returns (one row of five columns).
data_pt(ps) ==
    << ps[1].soma_act, logsig(ps[1].basal_mp), post_value(ps[1]), ps[1].soma_mp, ps[1].basal_mp >>

----------------------------------------------------------------------------
\* The drivers: each function is the sequence of layer calls it makes.

\* One call: operation op on layer `layer`, `other` the layer passed to it (0: none),
\* made by the part `phase` of the driver ("adjust", "ff", "nudge", "fb", "hook", "call").
Call(op, layer, other, phase) ==
    [op |-> op, layer |-> layer, other |-> other, phase |-> phase,
     has_args |-> FALSE, args |-> << >>, lam |-> << 0, 1 >>, save |-> FALSE]

\* do_ff_sweep with a lateral weight adjustment slipped into the sweep.
do_ff_sweep_adjusting ==
    << Call("apply_inputs", 1, 0, "ff"),
       Call("update_dend_mps_via_ip", 1, 0, "ff"),
       Call("update_pyrs_basal_and_soma_ff", 2, 1, "ff"),
       Call("update_dend_mps_via_ip", 2, 0, "ff"),
       Call("adjust_wts_lat_pi", 2, 0, "ff"),
       Call("update_pyrs_basal_and_soma_ff", 3, 2, "ff") >>

\* sacramento_main.do_ff_sweep
do_ff_sweep ==
    << Call("apply_inputs", 1, 0, "ff"),
       Call("update_dend_mps_via_ip", 1, 0, "ff"),
       Call("update_pyrs_basal_and_soma_ff", 2, 1, "ff"),
       Call("update_dend_mps_via_ip", 2, 0, "ff"),
       Call("update_pyrs_basal_and_soma_ff", 3, 2, "ff") >>

\* do_fb_sweep visiting the layers from the input layer upward.
do_fb_sweep_ascending ==
    << Call("update_pyrs_apical_soma_fb", 1, 2, "fb"),
       Call("update_pyrs_apical_soma_fb", 2, 3, "fb") >>

\* sacramento_main.do_fb_sweep
do_fb_sweep ==
    << Call("update_pyrs_apical_soma_fb", 2, 3, "fb"),
       Call("update_pyrs_apical_soma_fb", 1, 2, "fb") >>

\* The nudge imposed on the hidden layer instead of the output layer.
nudge_layer3_on_hidden(nudge_predicate) ==
    IF nudge_predicate
    THEN << [Call("nudge_output_layer_neurons", 2, 0, "nudge") EXCEPT
                !.has_args = TRUE, !.args = << 2 * Unit, 0 - 2 * Unit, 0 >>,
                !.lam = << 4, 5 >>] >>
    ELSE << >>

\* layer3.nudge_output_layer_neurons(2.0, -2.0, lambda_nudge=0.8), when nudge_predicate
nudge_layer3(nudge_predicate) ==
    IF nudge_predicate
    THEN << [Call("nudge_output_layer_neurons", 3, 0, "nudge") EXCEPT
                !.has_args = TRUE, !.args = << 2 * Unit, 0 - 2 * Unit >>, !.lam = << 4, 5 >>] >>
    ELSE << >>

\* train_1_step_rule_16b_only with the nudge imposed after the FB sweep.
train_1_step_rule_16b_only_nudge_last(nudge_predicate) ==
    << Call("adjust_wts_lat_pi", 2, 0, "adjust"),
       Call("adjust_wts_lat_pi", 1, 0, "adjust") >>
    \o do_ff_sweep \o do_fb_sweep \o nudge_layer3(nudge_predicate)

\* sacramento_main.train_1_step_rule_16b_only
train_1_step_rule_16b_only(nudge_predicate) ==
    << Call("adjust_wts_lat_pi", 2, 0, "adjust"),
       Call("adjust_wts_lat_pi", 1, 0, "adjust") >>
    \o do_ff_sweep \o nudge_layer3(nudge_predicate) \o do_fb_sweep

\* train_1_step_rule_16b_and_rule_13 with the FF weights into Layer 2 adjusted
\* after the sweeps instead of before them.
train_1_step_rule_16b_and_rule_13_late_adjust(nudge_predicate) ==
    << Call("adjust_wts_lat_pi", 2, 0, "adjust"),
       [Call("adjust_wts_pp_ff", 3, 2, "adjust") EXCEPT !.save = TRUE],
       Call("adjust_wts_lat_pi", 1, 0, "adjust") >>
    \o do_ff_sweep \o nudge_layer3(nudge_predicate) \o do_fb_sweep
    \o << Call("adjust_wts_pp_ff", 2, 1, "adjust") >>

\* train_1_step_rule_16b_and_rule_13 without the lateral adjustment of Layer 1.
train_1_step_rule_16b_and_rule_13_no_l1(nudge_predicate) ==
    << Call("adjust_wts_lat_pi", 2, 0, "adjust"),
       [Call("adjust_wts_pp_ff", 3, 2, "adjust") EXCEPT !.save = TRUE],
       Call("adjust_wts_pp_ff", 2, 1, "adjust") >>
    \o do_ff_sweep \o nudge_layer3(nudge_predicate) \o do_fb_sweep

\* sacramento_main.train_1_step_rule_16b_and_rule_13
train_1_step_rule_16b_and_rule_13(nudge_predicate) ==
    << Call("adjust_wts_lat_pi", 2, 0, "adjust"),
       [Call("adjust_wts_pp_ff", 3, 2, "adjust") EXCEPT !.save = TRUE],
       Call("adjust_wts_lat_pi", 1, 0, "adjust"),
       Call("adjust_wts_pp_ff", 2, 1, "adjust") >>
    \o do_ff_sweep \o nudge_layer3(nudge_predicate) \o do_fb_sweep

\* AndOrExperiment.__do_ff_sweep, with self._current_X = X[idx]
AndOr_do_ff_sweep(idx) ==
    << [Call("apply_inputs", 1, 0, "ff") EXCEPT !.has_args = TRUE, !.args = X[idx]],
       Call("update_dend_mps_via_ip", 1, 0, "ff"),
       Call("update_pyrs_basal_and_soma_ff", 2, 1, "ff"),
       Call("update_dend_mps_via_ip", 2, 0, "ff") >>

\* AndOrExperiment.__do_fb_sweep
AndOr_do_fb_sweep == << Call("update_pyrs_apical_soma_fb", 1, 2, "fb") >>

\* AndOrExperiment._train_1_step, with self._current_label = Y[idx]
AndOr_train_1_step(nudge_predicate, idx) ==
    << Call("adjust_wts_lat_pi", 1, 0, "adjust"),
       Call("adjust_wts_pp_ff", 2, 1, "adjust") >>
    \o AndOr_do_ff_sweep(idx)
    \o (IF nudge_predicate
        THEN << [Call("nudge_output_layer_neurons", 2, 0, "nudge") EXCEPT
                    !.has_args = TRUE, !.args = Y[idx], !.lam = << 4, 5 >>] >>
        ELSE << >>)
    \o AndOr_do_fb_sweep

\* The train-step functions of sacramento_main.
StepFns == {"train_1_step_rule_16b_only", "train_1_step_rule_16b_and_rule_13"}

Program(fn, nudge_predicate) ==
    IF fn = "train_1_step_rule_16b_only"
    THEN train_1_step_rule_16b_only(nudge_predicate)
    ELSE train_1_step_rule_16b_and_rule_13(nudge_predicate)

----------------------------------------------------------------------------
\* State machine

Idle == [fn |-> "none", nudge_predicate |-> FALSE]

\* No experiment run has been started.
NoRun ==
    [exp |-> "none", status |-> "idle", stmts |-> << >>, i |-> 0,
     self_prediction_steps |-> 0, training_steps |-> 0, events |-> << >>,
     current_X |-> << >>, current_label |-> << >>,
     start_len |-> 0, unnudged_len |-> << 0, 0, 0, 0 >>, ret |-> << >>]

\* No trace file has been written.
NoParse ==
    [n |-> 0, snapshots |-> << >>, file_p |-> << >>, file_i |-> << >>,
     called |-> "none", mode |-> "none", err |-> "none", written |-> { }, json |-> << >>]

Init ==
    \E n \in {"three", "two"}, s \in 0..MaxSeed :
        /\ net = n
        /\ wt_init_seed = s
        /\ pyrs = build_pyrs(n)
        /\ inhibs = build_inhibs(n)
        /\ wts_pp_ff = build_wts_pp_ff(n, s)
        /\ wts_pp_fb = build_wts_pp_fb(n, s)
        /\ wts_pi = build_wts_pi(n, s)
        /\ wts_ip = build_wts_ip(n, s)
        /\ rule13_post_data = << << 0, 0, 0, 0, 0 >> >>
        /\ current_step = 0
        /\ nudge_steps = << 0, 0, 0, 0 >>
        /\ current_X_index = -1
        /\ metrics_len = << 0, 0, 0, 0 >>
        /\ pc = << >>
        /\ log = << >>
        /\ step = Idle
        /\ snap = << build_pyrs(n), build_inhibs(n) >>
        /\ before = [neurons |-> << build_pyrs(n), build_inhibs(n) >>,
                     weights |-> << build_wts_pp_ff(n, s), build_wts_pp_fb(n, s),
                                    build_wts_pi(n, s), build_wts_ip(n, s) >>]
        /\ err = "none"
        /\ n_steps = 0
        /\ n_calls = 0
        /\ run = NoRun
        /\ parse = NoParse

\* What every layer call leaves alone.
DriverFrame ==
    UNCHANGED << net, wt_init_seed, current_step, nudge_steps, current_X_index,
                 step, snap, n_steps, n_calls, run, parse >>

\* The head of pc is made: it moves to the log.
Advance == /\ pc' = Tail(pc)
           /\ log' = Append(log, Head(pc))
           /\ before' = [neurons |-> neurons, weights |-> weights]

Next_is(op) == pc # << >> /\ Head(pc).op = op

\* A sacramento_main train step is entered.
Train(fn, nudge_predicate) ==
    /\ net = "three"
    /\ pc = << >>
    /\ n_steps < MaxSteps
    /\ pc' = Program(fn, nudge_predicate)
    /\ log' = << >>
    /\ step' = [fn |-> fn, nudge_predicate |-> nudge_predicate]
    /\ snap' = neurons
    /\ before' = [neurons |-> neurons, weights |-> weights]
    /\ n_steps' = n_steps + 1
    /\ err' = "none"
    /\ UNCHANGED << net, wt_init_seed, pyrs, inhibs, weights, rule13_post_data,
                    current_step, nudge_steps, current_X_index, metrics_len, n_calls,
                    run, parse >>

\* AndOrExperiment: _hook_pre_train_step draws pattern idx, then _train_1_step is
\* entered; _hook_post_train_step is the last call of the step.
TrainAndOr(nudge_predicate, idx) ==
    /\ net = "two"
    /\ pc = << >>
    /\ n_steps < MaxSteps
    /\ current_step' = current_step + 1
    /\ nudge_steps' = IF current_step + 1 = 400 THEN metrics_len ELSE nudge_steps
    /\ current_X_index' = idx - 1
    /\ pc' = AndOr_train_1_step(nudge_predicate, idx)
                \o << Call("_hook_post_train_step", 0, 0, "hook") >>
    /\ log' = << >>
    /\ step' = [fn |-> "_train_1_step", nudge_predicate |-> nudge_predicate]
    /\ snap' = neurons
    /\ before' = [neurons |-> neurons, weights |-> weights]
    /\ n_steps' = n_steps + 1
    /\ err' = "none"
    /\ UNCHANGED << net, wt_init_seed, pyrs, inhibs, weights, rule13_post_data,
                    metrics_len, n_calls, run, parse >>

\* _hook_post_train_step: one sample appended to the selected pattern's metrics.
HookPost ==
    /\ Next_is("_hook_post_train_step")
    /\ metrics_len' = [metrics_len EXCEPT ![current_X_index + 1] = @ + 1]
    /\ Advance
    /\ err' = "none"
    /\ DriverFrame
    /\ UNCHANGED << pyrs, inhibs, weights, rule13_post_data >>

\* A caller outside the drivers invokes apply_inputs on layer k with stimulus vec.
CallApplyInputs(k, vec) ==
    /\ pc = << >>
    /\ n_calls < MaxCalls
    /\ pc' = << [Call("apply_inputs", k, 0, "call") EXCEPT !.has_args = TRUE, !.args = vec] >>
    /\ log' = << >>
    /\ step' = [fn |-> "call", nudge_predicate |-> FALSE]
    /\ snap' = neurons
    /\ before' = [neurons |-> neurons, weights |-> weights]
    /\ n_calls' = n_calls + 1
    /\ err' = "none"
    /\ UNCHANGED << net, wt_init_seed, pyrs, inhibs, weights, rule13_post_data,
                    current_step, nudge_steps, current_X_index, metrics_len, n_steps,
                    run, parse >>

\* A caller outside the drivers invokes nudge_output_layer_neurons on layer k.
CallNudge(k, a) ==
    /\ pc = << >>
    /\ n_calls < MaxCalls
    /\ pc' = << [Call("nudge_output_layer_neurons", k, 0, "call") EXCEPT
                    !.has_args = TRUE,
                    !.args = [i \in DOMAIN pyrs[k] |-> a.target],
                    !.lam = a.lam] >>
    /\ log' = << >>
    /\ step' = [fn |-> "call", nudge_predicate |-> TRUE]
    /\ snap' = neurons
    /\ before' = [neurons |-> neurons, weights |-> weights]
    /\ n_calls' = n_calls + 1
    /\ err' = "none"
    /\ UNCHANGED << net, wt_init_seed, pyrs, inhibs, weights, rule13_post_data,
                    current_step, nudge_steps, current_X_index, metrics_len, n_steps,
                    run, parse >>

\* A call that raises abandons the rest of the function that made it.
Raise == /\ pc' = << >>
         /\ log' = Append(log, Head(pc))
         /\ before' = [neurons |-> neurons, weights |-> weights]

ApplyInputs ==
    /\ Next_is("apply_inputs")
    /\ LET c == Head(pc)
           k == c.layer
           r == apply_inputs(pyrs[k], IF c.has_args THEN c.args ELSE default_inputs(pyrs[k]))
       IN  /\ pyrs' = [pyrs EXCEPT ![k] = r.pyrs]
           /\ err' = r.err
           /\ IF r.err = "none" THEN Advance ELSE Raise
    /\ DriverFrame
    /\ UNCHANGED << inhibs, weights, rule13_post_data, metrics_len >>

UpdateDend ==
    /\ Next_is("update_dend_mps_via_ip")
    /\ LET k == Head(pc).layer
       IN  inhibs' = [inhibs EXCEPT ![k] = update_dend_mps_via_ip(@, wts_ip[k], pyrs[k])]
    /\ err' = "none"
    /\ Advance
    /\ DriverFrame
    /\ UNCHANGED << pyrs, weights, rule13_post_data, metrics_len >>

UpdateFF ==
    /\ Next_is("update_pyrs_basal_and_soma_ff")
    /\ LET c == Head(pc)
           k == c.layer
       IN  pyrs' = [pyrs EXCEPT
                       ![k] = update_pyrs_basal_and_soma_ff(@, wts_pp_ff[k], pyrs[c.other])]
    /\ err' = "none"
    /\ Advance
    /\ DriverFrame
    /\ UNCHANGED << inhibs, weights, rule13_post_data, metrics_len >>

UpdateFB ==
    /\ Next_is("update_pyrs_apical_soma_fb")
    /\ LET c == Head(pc)
           k == c.layer
       IN  pyrs' = [pyrs EXCEPT
                       ![k] = update_pyrs_apical_soma_fb(@, wts_pp_fb[k], wts_pi[k],
                                                         pyrs[c.other], inhibs[k])]
    /\ err' = "none"
    /\ Advance
    /\ DriverFrame
    /\ UNCHANGED << inhibs, weights, rule13_post_data, metrics_len >>

Nudge ==
    /\ Next_is("nudge_output_layer_neurons")
    /\ LET c == Head(pc)
           k == c.layer
           r == nudge_output_layer_neurons(pyrs[k], wts_pp_fb[k], inhibs[k], c.args, c.lam)
       IN  /\ pyrs' = [pyrs EXCEPT ![k] = r.pyrs]
           /\ err' = r.err
           /\ IF r.err = "none" THEN Advance ELSE Raise
    /\ DriverFrame
    /\ UNCHANGED << inhibs, weights, rule13_post_data, metrics_len >>

AdjustLatPI ==
    /\ Next_is("adjust_wts_lat_pi")
    /\ LET k == Head(pc).layer
       IN  wts_pi' = [wts_pi EXCEPT ![k] = adjust_wts_lat_pi(@, pyrs[k], inhibs[k])]
    /\ err' = "none"
    /\ Advance
    /\ DriverFrame
    /\ UNCHANGED << pyrs, inhibs, wts_pp_ff, wts_pp_fb, wts_ip, rule13_post_data, metrics_len >>

\* adjust_wts_pp_ff; the driver appends the returned record to rule13_post_data
\* when the call is the one whose result it saves.
AdjustPPFF ==
    /\ Next_is("adjust_wts_pp_ff")
    /\ LET c == Head(pc)
           k == c.layer
       IN  /\ wts_pp_ff' = [wts_pp_ff EXCEPT
                               ![k] = adjust_wts_pp_ff(@, pyrs[k], pyrs[c.other])]
           /\ rule13_post_data' = IF c.save THEN Append(rule13_post_data, data_pt(pyrs[k]))
                                  ELSE rule13_post_data
    /\ err' = "none"
    /\ Advance
    /\ DriverFrame
    /\ UNCHANGED << pyrs, inhibs, wts_pp_fb, wts_pi, wts_ip, metrics_len >>

\* The stimulus vectors and nudge arguments callers are drawn from.
Stimuli == { << Unit >>, << Unit, 0, Unit >> }

NudgeArgs ==
    { [target |-> 3, lam |-> << 0, 1 >>], [target |-> 3, lam |-> << 4, 5 >>],
      [target |-> Unit, lam |-> << 1, 1 >>] }

Next ==
    \/ \E fn \in StepFns, np \in BOOLEAN : Train(fn, np)
    \/ \E np \in BOOLEAN, idx \in 1..4 : TrainAndOr(np, idx)
    \/ \E k \in Layers, vec \in Stimuli : CallApplyInputs(k, vec)
    \/ \E k \in Layers, a \in NudgeArgs : CallNudge(k, a)
    \/ ApplyInputs
    \/ UpdateDend
    \/ UpdateFF
    \/ UpdateFB
    \/ Nudge
    \/ AdjustLatPI
    \/ AdjustPPFF
    \/ HookPost

Spec == Init /\ [][Next]_vars

----------------------------------------------------------------------------
\* Vocabulary of the properties

IsFF(c) == c.op \in {"apply_inputs", "update_dend_mps_via_ip", "update_pyrs_basal_and_soma_ff"}

IsFB(c) == c.op = "update_pyrs_apical_soma_fb"

IsNudge(c) == c.op = "nudge_output_layer_neurons"

IsAdjust(c) == c.op \in {"adjust_wts_lat_pi", "adjust_wts_pp_ff"}

\* A train step of a driver is running or has just ended.
InTrainStep == step.fn \in StepFns \cup {"_train_1_step"}

\* The train step has made all its calls.
StepDone == InTrainStep /\ pc = << >> /\ err = "none"

\* The calls l hold the FF update of every layer: the stimulus on layer 1, the basal
\* update on every later layer, the dendritic update on every layer with interneurons.
FFComplete(l) ==
    /\ \E i \in DOMAIN l : l[i].op = "apply_inputs" /\ l[i].layer = 1
    /\ \A k \in 2..n_layers(net) :
          \E i \in DOMAIN l : l[i].op = "update_pyrs_basal_and_soma_ff" /\ l[i].layer = k
    /\ \A k \in Layers :
          inhibs[k] # << >> =>
             \E i \in DOMAIN l : l[i].op = "update_dend_mps_via_ip" /\ l[i].layer = k

\* Number of calls of operation op on layer k in l.
Count(l, op, k) == Cardinality({i \in DOMAIN l : l[i].op = op /\ l[i].layer = k})

LastCall == log[Len(log)]

----------------------------------------------------------------------------
\* C1: in every train step the whole FF sweep is made before the first FB update,
\* and a nudge is made only when nudging is enabled, after the last FF update and
\* before the first FB update (and is made by then when nudging is enabled).
C1_SweepOrder ==
    InTrainStep =>
        /\ \A i, j \in DOMAIN log : IsFB(log[i]) /\ IsFF(log[j]) => j < i
        /\ (\E i \in DOMAIN log : IsFB(log[i])) => FFComplete(log)
        /\ \A i \in DOMAIN log :
              IsNudge(log[i]) =>
                 /\ step.nudge_predicate
                 /\ FFComplete(SubSeq(log, 1, i - 1))
                 /\ \A j \in DOMAIN log : (IsFF(log[j]) => j < i) /\ (IsFB(log[j]) => i < j)
        /\ (step.nudge_predicate /\ \E i \in DOMAIN log : IsFB(log[i]))
              => \E i \in DOMAIN log : IsNudge(log[i])

\* A nudged train step that has made its nudge and its FB sweep.
C1_Witness ==
    /\ StepDone
    /\ step.nudge_predicate
    /\ \E i \in DOMAIN log : IsNudge(log[i])
    /\ \E i \in DOMAIN log : IsFB(log[i])

\* C2: in every train step no weight adjustment follows a call that is not a weight
\* adjustment, and as long as the step has made only weight adjustments the neuron
\* state is the one the step was entered with.
C2_AdjustBeforeSweeps ==
    InTrainStep =>
        /\ \A i, j \in DOMAIN log : (i < j /\ IsAdjust(log[j])) => IsAdjust(log[i])
        /\ \A i \in DOMAIN pc : IsAdjust(pc[i]) => \A j \in DOMAIN log : IsAdjust(log[j])
        /\ (\A i \in DOMAIN log : IsAdjust(log[i])) => neurons = snap

\* A second train step that has made all its adjustments, and only them, on the
\* neuron state left by the first step.
C2_Witness ==
    /\ InTrainStep
    /\ n_steps = 2
    /\ log # << >>
    /\ \A i \in DOMAIN log : IsAdjust(log[i])
    /\ pc # << >> /\ ~IsAdjust(Head(pc))
    /\ neurons = snap
    /\ snap # << build_pyrs(net), build_inhibs(net) >>

\* C3 as stated: every train step adjusts the lateral weights of every layer but the
\* output layer exactly once, and the FF weights of every layer but the input layer
\* exactly once.
C3_AdjustsAllLayers ==
    StepDone =>
        \A k \in Layers :
            /\ Count(log, "adjust_wts_lat_pi", k) = (IF k < n_layers(net) THEN 1 ELSE 0)
            /\ Count(log, "adjust_wts_pp_ff", k) = (IF k > 1 THEN 1 ELSE 0)

\* C3: every train step adjusts the lateral weights of every layer but the output
\* layer exactly once and never those of the output layer; train_1_step_rule_16b_and_rule_13
\* and _train_1_step adjust the FF weights of every layer but the input layer exactly
\* once and never those of the input layer; train_1_step_rule_16b_only adjusts no FF
\* weights.
C3_AdjustsPerStepFunction ==
    StepDone =>
        \A k \in Layers :
            /\ Count(log, "adjust_wts_lat_pi", k) = (IF k < n_layers(net) THEN 1 ELSE 0)
            /\ Count(log, "adjust_wts_pp_ff", k) =
                  (IF k > 1 /\ step.fn # "train_1_step_rule_16b_only" THEN 1 ELSE 0)

\* A finished train_1_step_rule_16b_and_rule_13.
C3_Witness ==
    /\ StepDone
    /\ step.fn = "train_1_step_rule_16b_and_rule_13"
    /\ Count(log, "adjust_wts_pp_ff", 2) = 1

\* C4: a call changes a weight matrix only if it is an adjust_* call on the layer
\* owning the matrix, made by the adjusting part of a train step; the calls of the
\* FF sweep, of the FB sweep and the nudge leave every weight matrix as it was.
C4_WeightsFrame ==
    /\ \A k \in Layers :
          /\ wts_pp_fb[k] = before.weights[2][k]
          /\ wts_ip[k] = before.weights[4][k]
          /\ wts_pi[k] # before.weights[3][k] =>
                /\ log # << >>
                /\ LastCall.op = "adjust_wts_lat_pi" /\ LastCall.layer = k
          /\ wts_pp_ff[k] # before.weights[1][k] =>
                /\ log # << >>
                /\ LastCall.op = "adjust_wts_pp_ff" /\ LastCall.layer = k
    /\ (log # << >> /\ LastCall.phase \in {"ff", "nudge", "fb", "call"})
          => weights = before.weights

\* An FB update made after the weights have moved away from their initial values.
C4_Witness ==
    /\ log # << >>
    /\ LastCall.phase = "fb"
    /\ wts_pi # build_wts_pi(net, wt_init_seed)
    /\ neurons # before.neurons

\* The layer of the last call is not a terminal layer.
LastNonTerminal == LastCall.layer < n_layers(net) \/ inhibs[LastCall.layer] # << >>

AllZero(m) == \A i \in DOMAIN m : \A j \in DOMAIN m[i] : m[i][j] = 0

\* C5: apply_inputs with a stimulus whose length is not the layer's pyramidal count
\* fails with DimensionMismatch, and a call that failed so left every neuron and
\* every weight as it was before the call.
C5_ApplyInputsMismatch ==
    /\ (log # << >> /\ LastCall.op = "apply_inputs" /\ LastCall.has_args
           /\ Len(LastCall.args) # Len(pyrs[LastCall.layer]))
          => err = "DimensionMismatch"
    /\ err = "DimensionMismatch" =>
          /\ log # << >> /\ LastCall.op = "apply_inputs"
          /\ neurons = before.neurons
          /\ weights = before.weights

\* A failed apply_inputs on a network that train steps have moved from its built state.
C5_Witness ==
    /\ err = "DimensionMismatch"
    /\ n_steps >= 1
    /\ \E i \in DOMAIN pyrs[LastCall.layer] : pyrs[LastCall.layer][i] # new_pyr

\* C6: a nudge on a layer that has a downstream layer or interneurons fails with
\* InvalidLayerRole and leaves the neuron state as it was; the drivers nudge the
\* last layer of the chain only.
C6_NudgeRole ==
    /\ (log # << >> /\ IsNudge(LastCall) /\ LastNonTerminal) =>
          /\ err = "InvalidLayerRole"
          /\ neurons = before.neurons
    /\ err = "InvalidLayerRole" => (log # << >> /\ IsNudge(LastCall) /\ LastNonTerminal)
    /\ \A i \in DOMAIN log :
          (IsNudge(log[i]) /\ log[i].phase # "call") => log[i].layer = n_layers(net)
    /\ \A i \in DOMAIN pc :
          (IsNudge(pc[i]) /\ pc[i].phase # "call") => pc[i].layer = n_layers(net)

\* A failed nudge of a non-terminal layer whose neurons train steps have written.
C6_Witness ==
    /\ err = "InvalidLayerRole"
    /\ n_steps >= 1
    /\ \E i \in DOMAIN pyrs[LastCall.layer] : pyrs[LastCall.layer][i].soma_act # 0

\* C7: after a nudge that succeeded, every somatic activation of the layer is its
\* value before the call when lambda = 0, the target when lambda = 1, and otherwise
\* (1 - lambda) * current + lambda * target, to the resolution of the fixed-point grid.
C7_NudgeBlend ==
    (log # << >> /\ IsNudge(LastCall) /\ err = "none") =>
        LET k == LastCall.layer
            lam == LastCall.lam
            old == before.neurons[1][k]
        IN  \A i \in DOMAIN pyrs[k] :
                LET exact == (lam[2] - lam[1]) * old[i].soma_act + lam[1] * LastCall.args[i]
                    new == pyrs[k][i].soma_act
                IN  /\ lam[1] = 0 => new = old[i].soma_act
                    /\ lam[1] = lam[2] => new = LastCall.args[i]
                    /\ lam[2] * new <= exact
                    /\ exact < lam[2] * new + lam[2]

\* A nudge with lambda strictly between 0 and 1 that moved an activation part of
\* the way to its target.
C7_Witness ==
    /\ log # << >> /\ IsNudge(LastCall) /\ err = "none"
    /\ LastCall.lam = << 4, 5 >>
    /\ \E i \in DOMAIN pyrs[LastCall.layer] :
          /\ pyrs[LastCall.layer][i].soma_act # before.neurons[1][LastCall.layer][i].soma_act
          /\ pyrs[LastCall.layer][i].soma_act # LastCall.args[i]

\* C8: the somatic activation of every pyramidal neuron and of every interneuron
\* lies within [0, 1].
C8_ActivationRange ==
    \A k \in Layers :
        /\ \A i \in DOMAIN pyrs[k] : pyrs[k][i].soma_act \in 0..Unit
        /\ \A i \in DOMAIN inhibs[k] : inhibs[k][i].soma_act \in 0..Unit

\* C9: after the FB update of a layer whose FB weights and PI weights are all zero,
\* the apical potential of every pyramidal neuron of the layer is zero.
C9_ZeroWeightsZeroApical ==
    (log # << >> /\ IsFB(LastCall)
        /\ AllZero(wts_pp_fb[LastCall.layer]) /\ AllZero(wts_pi[LastCall.layer]))
      => \A i \in DOMAIN pyrs[LastCall.layer] : pyrs[LastCall.layer][i].apical_mp = 0

\* An FB update with zero FB and PI weights, made after the FF sweep of the step,
\* while downstream pyramidal neurons and the layer's own interneurons are active.
C9_Witness ==
    /\ log # << >> /\ IsFB(LastCall)
    /\ AllZero(wts_pp_fb[LastCall.layer]) /\ AllZero(wts_pi[LastCall.layer])
    /\ FFComplete(log)
    /\ \E j \in DOMAIN pyrs[LastCall.other] : pyrs[LastCall.other][j].soma_act # 0
    /\ \E j \in DOMAIN inhibs[LastCall.layer] : inhibs[LastCall.layer][j].soma_act # 0

\* Call c sets the somatic state of the pyramidal neurons of layer k.
WritesSoma(c, k) ==
    /\ c.layer = k
    /\ c.op \in {"apply_inputs", "update_pyrs_basal_and_soma_ff",
                 "update_pyrs_apical_soma_fb", "nudge_output_layer_neurons"}

\* Some call before position j of the log is one of the operations ops on layer k.
MadeBefore(j, ops, k) == \E i \in 1..(j - 1) : log[i].layer = k /\ log[i].op \in ops

\* The FF sweep of the running step has just made its last call.
FFJustDone ==
    /\ InTrainStep
    /\ log # << >>
    /\ LastCall.phase = "ff"
    /\ (pc = << >> \/ Head(pc).phase # "ff")

----------------------------------------------------------------------------
\* Experiment runs: each run function is the sequence of statements it executes.

\* Bounds of the runs: configured step counts, and train steps made before a run.
MaxSelfPred == 2
MaxTraining == 1
MaxEarlier == 1

\* One statement of a run function: a loop of n train steps, a sweep, or the nudge.
Stmt(op, n, nudge_predicate) == [op |-> op, n |-> n, nudge_predicate |-> nudge_predicate]

\* AndOrExperiment.run with the nudged phase run before the un-nudged one.
AndOrExperiment_run_phases_swapped(self_prediction_steps, training_steps) ==
    << Stmt("train", training_steps, TRUE),
       Stmt("nudge_output_layer", 0, FALSE),
       Stmt("train", self_prediction_steps, FALSE) >>

\* AndOrExperiment.run
AndOrExperiment_run(self_prediction_steps, training_steps) ==
    << Stmt("train", self_prediction_steps, FALSE),
       Stmt("nudge_output_layer", 0, FALSE),
       Stmt("train", training_steps, TRUE) >>

\* The number of nudged train steps of run_pilot_exp_1b_concat_2b.
n_of_training_steps == 200

\* sacramento_main.run_pilot_exp_1b_concat_2b
run_pilot_exp_1b_concat_2b(steps_to_self_pred) ==
    << Stmt("do_ff_sweep", 0, FALSE),
       Stmt("do_fb_sweep", 0, FALSE),
       Stmt("train_data", steps_to_self_pred, FALSE),
       Stmt("nudge_output_layer", 0, FALSE),
       Stmt("train_data", n_of_training_steps, TRUE),
       Stmt("do_ff_sweep", 0, FALSE) >>

\* sacramento_main.nudge_output_layer: the nudge of layer3, then do_fb_sweep.
nudge_output_layer == nudge_layer3(TRUE) \o do_fb_sweep

\* AndOrExperiment.__do_ff_sweep
AndOrExperiment_do_ff_sweep(current_X) ==
    << [Call("apply_inputs", 1, 0, "ff") EXCEPT !.has_args = TRUE, !.args = current_X],
       Call("update_dend_mps_via_ip", 1, 0, "ff"),
       Call("update_pyrs_basal_and_soma_ff", 2, 1, "ff"),
       Call("update_dend_mps_via_ip", 2, 0, "ff") >>

\* The nudge of AndOrExperiment: layers[1].nudge_output_layer_neurons(*current_label)
AndOrExperiment_nudge(current_label) ==
    [Call("nudge_output_layer_neurons", 2, 0, "nudge") EXCEPT
        !.has_args = TRUE, !.args = current_label, !.lam = << 4, 5 >>]

\* AndOrExperiment._train_1_step
AndOrExperiment_train_1_step(nudge_predicate, current_X, current_label) ==
    << Call("adjust_wts_lat_pi", 1, 0, "adjust"),
       Call("adjust_wts_pp_ff", 2, 1, "adjust") >>
    \o AndOrExperiment_do_ff_sweep(current_X)
    \o (IF nudge_predicate THEN << AndOrExperiment_nudge(current_label) >> ELSE << >>)
    \o AndOr_do_fb_sweep

\* AndOrExperiment.__nudge_output_layer
AndOrExperiment_nudge_output_layer(current_label) ==
    << AndOrExperiment_nudge(current_label) >> \o AndOr_do_fb_sweep

\* What _hook_pre_train_step sets for the drawn pattern index.
hook_pre_train_step(index) ==
    [current_X_index |-> index - 1, current_X |-> X[index], current_label |-> Y[index]]

\* The history of a run, run-length encoded: event e is added to the events es.
Record(es, e) ==
    IF es # << >> /\ es[Len(es)].e = e
    THEN [es EXCEPT ![Len(es)].n = @ + 1]
    ELSE Append(es, [e |-> e, n |-> 1])

\* The pattern indices the label generator draws in the runs.
RunPatterns == {2, 4}

Pilot == "run_pilot_exp_1b_concat_2b"

AndOr == "AndOrExperiment"

\* The run is between two statements.
Running == run.status = "running" /\ pc = << >> /\ err = "none"

\* A function making the calls cs is entered.
Enter(cs, fn, nudge_predicate) ==
    /\ pc' = cs
    /\ log' = << >>
    /\ step' = [fn |-> fn, nudge_predicate |-> nudge_predicate]
    /\ snap' = neurons
    /\ before' = [neurons |-> neurons, weights |-> weights]
    /\ err' = "none"

\* What every statement of a run leaves alone.
RunFrame ==
    UNCHANGED << net, wt_init_seed, pyrs, inhibs, weights, rule13_post_data,
                 n_steps, n_calls, parse >>

ExperimentFrame == UNCHANGED << current_step, nudge_steps, current_X_index, metrics_len >>

\* A train step made in the process before the run is called.
EarlierStep ==
    /\ run.status = "idle"
    /\ n_steps < MaxEarlier
    /\ Train("train_1_step_rule_16b_and_rule_13", FALSE)

\* main: run_pilot_exp_1b_concat_2b(layer1, layer2, layer3, steps_to_self_pred) is called.
StartRunPilot(steps_to_self_pred) ==
    /\ net = "three"
    /\ run.status = "idle"
    /\ pc = << >>
    /\ run' = [NoRun EXCEPT !.exp = Pilot, !.status = "running",
                            !.stmts = run_pilot_exp_1b_concat_2b(steps_to_self_pred),
                            !.self_prediction_steps = steps_to_self_pred,
                            !.training_steps = n_of_training_steps,
                            !.start_len = Len(rule13_post_data)]
    /\ UNCHANGED << pc, log, step, snap, before, err >>
    /\ ExperimentFrame
    /\ RunFrame

\* AndOrExperiment(params).run() is called.
StartRunAndOr(self_prediction_steps, training_steps) ==
    /\ net = "two"
    /\ run.status = "idle"
    /\ pc = << >>
    /\ run' = [NoRun EXCEPT !.exp = AndOr, !.status = "running",
                            !.stmts = AndOrExperiment_run(self_prediction_steps, training_steps),
                            !.self_prediction_steps = self_prediction_steps,
                            !.training_steps = training_steps,
                            !.start_len = Len(rule13_post_data)]
    /\ UNCHANGED << pc, log, step, snap, before, err >>
    /\ ExperimentFrame
    /\ RunFrame

\* do_ff_sweep(...) or do_fb_sweep(...) as a statement of the run.
RunSweep ==
    /\ Running
    /\ run.stmts # << >>
    /\ Head(run.stmts).op \in {"do_ff_sweep", "do_fb_sweep"}
    /\ LET op == Head(run.stmts).op
       IN  /\ Enter(IF op = "do_ff_sweep" THEN do_ff_sweep ELSE do_fb_sweep, op, FALSE)
           /\ run' = [run EXCEPT !.stmts = Tail(@), !.events = Record(@, op)]
    /\ ExperimentFrame
    /\ RunFrame

\* train_data: one more iteration of its loop.
RunTrainData ==
    /\ Running
    /\ run.stmts # << >>
    /\ Head(run.stmts).op = "train_data"
    /\ run.i < Head(run.stmts).n
    /\ LET np == Head(run.stmts).nudge_predicate
       IN  /\ Enter(train_1_step_rule_16b_and_rule_13(np),
                    "train_1_step_rule_16b_and_rule_13", np)
           /\ run' = [run EXCEPT !.i = @ + 1,
                                 !.events = Record(@, IF np THEN "on" ELSE "off")]
    /\ ExperimentFrame
    /\ RunFrame

\* Experiment.train: one more iteration of its loop; _hook_pre_train_step draws index.
RunTrain(index) ==
    /\ Running
    /\ run.stmts # << >>
    /\ Head(run.stmts).op = "train"
    /\ run.i < Head(run.stmts).n
    /\ LET np == Head(run.stmts).nudge_predicate
           h == hook_pre_train_step(index)
       IN  /\ current_step' = current_step + 1
           /\ nudge_steps' = IF current_step + 1 = 400 THEN metrics_len ELSE nudge_steps
           /\ current_X_index' = h.current_X_index
           /\ Enter(AndOrExperiment_train_1_step(np, h.current_X, h.current_label)
                        \o << Call("_hook_post_train_step", 0, 0, "hook") >>,
                    "_train_1_step", np)
           /\ run' = [run EXCEPT !.i = @ + 1,
                                 !.events = Record(@, IF np THEN "on" ELSE "off"),
                                 !.current_X = h.current_X,
                                 !.current_label = h.current_label]
    /\ UNCHANGED metrics_len
    /\ RunFrame

\* The loop of train / train_data has made all its iterations.
RunEndLoop ==
    /\ Running
    /\ run.stmts # << >>
    /\ Head(run.stmts).op \in {"train", "train_data"}
    /\ run.i = Head(run.stmts).n
    /\ run' = [run EXCEPT !.stmts = Tail(@), !.i = 0]
    /\ UNCHANGED << pc, log, step, snap, before, err >>
    /\ ExperimentFrame
    /\ RunFrame

\* The standalone nudge between the phases. Unpacking a label that was never set
\* (*None) raises TypeError.
RunNudgeOutputLayer ==
    /\ Running
    /\ run.stmts # << >>
    /\ Head(run.stmts).op = "nudge_output_layer"
    /\ IF run.exp = AndOr /\ run.current_label = << >>
       THEN /\ pc' = << >>
            /\ log' = << >>
            /\ step' = [fn |-> "nudge_output_layer", nudge_predicate |-> TRUE]
            /\ UNCHANGED << snap, before >>
            /\ err' = "TypeError"
            /\ run' = [run EXCEPT !.status = "raised", !.events = Record(@, "nudge"),
                                  !.unnudged_len = metrics_len]
       ELSE /\ Enter(IF run.exp = AndOr
                     THEN AndOrExperiment_nudge_output_layer(run.current_label)
                     ELSE nudge_output_layer,
                     "nudge_output_layer", TRUE)
            /\ run' = [run EXCEPT !.stmts = Tail(@), !.events = Record(@, "nudge"),
                                  !.unnudged_len = metrics_len]
    /\ ExperimentFrame
    /\ RunFrame

\* The run function returns; run_pilot_exp_1b_concat_2b returns rule13_post_data[1:].
RunReturn ==
    /\ Running
    /\ run.stmts = << >>
    /\ run' = [run EXCEPT !.status = "returned",
                          !.ret = IF run.exp = Pilot THEN Tail(rule13_post_data) ELSE << >>]
    /\ UNCHANGED << pc, log, step, snap, before, err >>
    /\ ExperimentFrame
    /\ RunFrame

NextRun ==
    \/ EarlierStep
    \/ \E sps \in 0..MaxSelfPred : StartRunPilot(sps)
    \/ \E sps \in 0..MaxSelfPred, ts \in 0..MaxTraining : StartRunAndOr(sps, ts)
    \/ RunSweep
    \/ RunTrainData
    \/ \E index \in RunPatterns : RunTrain(index)
    \/ RunEndLoop
    \/ RunNudgeOutputLayer
    \/ RunReturn
    \/ ApplyInputs
    \/ UpdateDend
    \/ UpdateFF
    \/ UpdateFB
    \/ Nudge
    \/ AdjustLatPI
    \/ AdjustPPFF
    \/ HookPost

SpecRun == Init /\ [][NextRun]_vars

\* Number of events e in the history of the run.
EventCount(e) ==
    SumTo([i \in DOMAIN run.events |-> IF run.events[i].e = e THEN run.events[i].n ELSE 0],
          Len(run.events))

\* The train-step and nudge events of the run, in order.
PhaseEvents ==
    LET sel == SelectSeq(run.events, LAMBDA r : r.e \in {"off", "nudge", "on"})
    IN  [i \in DOMAIN sel |-> sel[i].e]

SamePattern ==
    \/ run.current_X = << >> /\ run.current_label = << >>
    \/ \E k \in DOMAIN X : run.current_X = X[k] /\ run.current_label = Y[k]

\* The nudge just made had as targets the label of the pattern whose input the last
\* FF sweep applied to the input layer.
NudgedTowardAppliedPattern ==
    \E k \in DOMAIN X :
        /\ LastCall.args = Y[k]
        /\ \A m \in DOMAIN pyrs[1] : pyrs[1][m].basal_mp = X[k][m]

\* C16: whenever AndOrExperiment nudges the output layer, in a nudged train step or in
\* the standalone nudge, the targets are the label Y[k] of the pattern k whose input
\* X[k] the most recent FF sweep applied; the current input and the current label are
\* of the same pattern, and the label is set whenever a nudge is made.
C16_NudgeLabelOfAppliedInput ==
    run.exp = AndOr =>
        /\ SamePattern
        /\ (log # << >> /\ IsNudge(LastCall)) => NudgedTowardAppliedPattern
        /\ \A i \in DOMAIN run.events :
              run.events[i].e = "nudge" => (run.current_label # << >> /\ err # "TypeError")

\* C16 without the standalone nudge of a run that made no train step.
C16_ExceptUnsetLabel ==
    run.exp = AndOr =>
        /\ SamePattern
        /\ (log # << >> /\ IsNudge(LastCall)) => NudgedTowardAppliedPattern

\* C17: once the un-nudged phase of an AndOrExperiment run is over, the nudge marker
\* of every pattern is the number of samples recorded for the pattern during that
\* phase, whatever self_prediction_steps was configured.
C17_NudgeMarker ==
    (run.exp = AndOr /\ EventCount("nudge") >= 1) =>
        \A i \in DOMAIN X : nudge_steps[i] = run.unnudged_len[i]

\* C18: the Rule 13 data run_pilot_exp_1b_concat_2b returns are the records appended
\* during that call, one per train step (steps_to_self_pred + 200 of them), in order and
\* without the placeholder row, whatever was executed in the process before the call.
C18_Rule13DataOfThisRun ==
    (run.exp = Pilot /\ run.status = "returned") =>
        /\ run.ret = SubSeq(rule13_post_data, run.start_len + 1, Len(rule13_post_data))
        /\ Len(run.ret) = run.self_prediction_steps + n_of_training_steps

----------------------------------------------------------------------------
\* The trace files: VisualExtractor writes them, NeuronParser converts them.
\* A file is the sequence of its lines, a line the sequence of its numbers
\* (fixed-point, ids included).

\* Bound of the trace files: calls of layers_to_file.
MaxSnapshots == 2

RECURSIVE Flatten(_)
Flatten(ss) == IF ss = << >> THEN << >> ELSE Head(ss) \o Flatten(Tail(ss))

Abs(x) == IF x < 0 THEN 0 - x ELSE x

\* VisualExtractor.__pyramidal_data_extraction: the line of layer k.
pyramidal_data_extraction(k, ps) ==
    << k * Unit >>
    \o Flatten([i \in DOMAIN ps |->
                  << i * Unit, ps[i].apical_mp, ps[i].basal_mp, ps[i].soma_mp, ps[i].soma_act >>])

\* VisualExtractor.__interneuron_data_extraction: the line of layer k.
interneuron_data_extraction(k, is) ==
    << k * Unit >>
    \o Flatten([i \in DOMAIN is |->
                  << i * Unit, is[i].soma_mp, is[i].soma_act, is[i].dend_mp >>])

\* The name of the JSON file written for a trace file: '.txt' -> '_Delta.json'.
json_file(file_name) ==
    IF file_name = "_pyramidal.txt" THEN "_pyramidal_Delta.json" ELSE "_interneuron_Delta.json"

file_name_of(mode) == IF mode = "p" THEN "_pyramidal.txt" ELSE "_interneuron.txt"

\* parse_into_np_array: the numbers of a line. array2string prints an integral value
\* as "x." and pads it only when the line has a fractional value; the last number of
\* an all-integral line keeps its dot, and a number ending in "1." loses that suffix
\* before float(): "1." becomes "" (ValueError), "11." becomes "1".
parse_into_np_array(line) ==
    LET last == line[Len(line)]
        whole == Abs(last) \div Unit
    IN  IF (\A i \in DOMAIN line : line[i] % Unit = 0) /\ whole % 10 = 1
        THEN IF whole = 1
             THEN [err |-> "ValueError", array |-> << >>]
             ELSE [err |-> "none",
                   array |-> [line EXCEPT ![Len(line)] =
                                 (IF last < 0 THEN 0 - 1 ELSE 1) * (whole \div 10) * Unit]]
        ELSE [err |-> "none", array |-> line]

RECURSIVE MaxLayer(_)
MaxLayer(arrays) ==
    IF arrays = << >> THEN 0
    ELSE LET m == MaxLayer(Tail(arrays))
             a == Head(arrays)[1]
         IN  IF a > m THEN a ELSE m

\* __file_to_list_of_arrays: the lines parsed, then regrouped by layer
\* (arrays[i][g]: the line of layer i in the g-th group of layer_amount lines).
file_to_list_of_arrays(file) ==
    LET parsed == [t \in DOMAIN file |-> parse_into_np_array(file[t])]
        parsed_arrays == [t \in DOMAIN file |-> parsed[t].array]
        layer_amount == MaxLayer(parsed_arrays) \div Unit
    IN  IF \E t \in DOMAIN file : parsed[t].err # "none"
        THEN [err |-> "ValueError", arrays |-> << >>]
        ELSE IF layer_amount = 0
        THEN [err |-> "ValueError", arrays |-> << >>]
        ELSE IF Len(file) % layer_amount # 0
        THEN [err |-> "IndexError", arrays |-> << >>]
        ELSE [err |-> "none",
              arrays |-> [i \in 1..layer_amount |->
                            [g \in 1..(Len(file) \div layer_amount) |->
                                parsed_arrays[(g - 1) * layer_amount + i]]]]

neuron_data_length(mode) == IF mode = "p" THEN 5 ELSE 4

\* __calculate_deltas: per line, the ids kept and previous - current for the rest;
\* the layer number (first number of the line) is dropped.
calculate_deltas(list_of_arrays, mode) ==
    [t \in DOMAIN list_of_arrays |->
        LET current_array == list_of_arrays[t]
            previous_array == IF t = 1 THEN list_of_arrays[1] ELSE list_of_arrays[t - 1]
        IN  [index \in 1..(Len(current_array) - 1) |->
                IF (index - 1) % neuron_data_length(mode) = 0
                THEN current_array[index + 1]
                ELSE previous_array[index + 1] - current_array[index + 1]]]

\* __zip_delta_array: one list, snapshot by snapshot, layer by layer.
zip_delta_array(num_layers, delta_array) ==
    [i \in 1..(Len(delta_array[1]) * num_layers) |->
        delta_array[((i - 1) % num_layers) + 1][((i - 1) \div num_layers) + 1]]

\* The JSON entries __zipped_delta_to_json makes of one delta (lines 137-156).
delta_to_entries(delta, mode) ==
    IF mode = "p"
    THEN [k \in 1..(Len(delta) \div 5) |->
            LET i == 5 * (k - 1)
            IN  [id |-> delta[i + 1], apical |-> delta[i + 2], basal |-> delta[i + 3],
                 soma |-> delta[i + 4],
                 firing |-> IF delta[i + 4] > delta[i + 5] THEN 1 ELSE 0]]
    ELSE [k \in 1..(Len(delta) \div 4) |->
            LET i == 4 * (k - 1)
            IN  [id |-> delta[i + 1], dend |-> delta[i + 2], soma |-> delta[i + 3],
                 firing |-> IF delta[i + 3] > delta[i + 4] THEN 1 ELSE 0]]

\* The loop of __zipped_delta_to_json from delta number t (from 0) on, with the
\* layer counter l, the layers filled so far and the records emitted so far.
RECURSIVE json_loop(_, _, _, _, _, _, _)
json_loop(zipped_delta_array, num_layers, mode, t, l, layers, json_output) ==
    IF t = Len(zipped_delta_array) THEN json_output
    ELSE LET filled == [layers EXCEPT
                           ![l + 1] = @ \o delta_to_entries(zipped_delta_array[t + 1], mode)]
             next_l == (l + 1) % num_layers
         IN  IF next_l = num_layers - 1
             THEN json_loop(zipped_delta_array, num_layers, mode, t + 1, next_l,
                            [k \in 1..num_layers |-> << >>],
                            Append(json_output, [time |-> t \div 3, layers |-> filled]))
             ELSE json_loop(zipped_delta_array, num_layers, mode, t + 1, next_l,
                            filled, json_output)

\* __zipped_delta_to_json
zipped_delta_to_json(zipped_delta_array, num_layers, mode) ==
    json_loop(zipped_delta_array, num_layers, mode, 0, 0,
              [k \in 1..num_layers |-> << >>], << >>)

\* __list_of_arrays_to_delta. The list __zip_delta_array returns is unpacked into two
\* names: ValueError unless it has exactly two elements, and then num_layers is bound
\* to a delta (a list), which range() rejects with TypeError.
list_of_arrays_to_delta(list_of_arrays, file_name, mode) ==
    LET delta_array == [l \in DOMAIN list_of_arrays |->
                           calculate_deltas(list_of_arrays[l], mode)]
        num_layers == Len(list_of_arrays)
        zipped == zip_delta_array(num_layers, delta_array)
    IN  IF Len(zipped) # 2
        THEN [err |-> "ValueError", written |-> { }]
        ELSE [err |-> "TypeError", written |-> { }]

\* NeuronParser.file_to_delta on the file with the lines `file`.
file_to_delta(file, file_name, mode) ==
    LET r == file_to_list_of_arrays(file)
    IN  IF r.err # "none" THEN [err |-> r.err, written |-> { }]
        ELSE list_of_arrays_to_delta(r.arrays, file_name, mode)

\* The lines of the trace file of a mode.
FileOf(mode) == IF mode = "p" THEN parse.file_p ELSE parse.file_i

Modes == {"p", "i"}

\* What the trace-file operations leave alone.
ParseFrame ==
    UNCHANGED << net, wt_init_seed, pyrs, inhibs, weights, rule13_post_data, current_step,
                 nudge_steps, current_X_index, metrics_len, pc, log, step, snap, before,
                 err, n_steps, n_calls, run >>

\* A train step between two snapshots.
ParseTrainStep ==
    /\ parse.called = "none"
    /\ \/ \E np \in BOOLEAN : Train("train_1_step_rule_16b_and_rule_13", np)
       \/ \E index \in RunPatterns : TrainAndOr(FALSE, index)

\* VisualExtractor.layers_to_file(layers) with the first n layers of the chain: one
\* line per layer appended to the pyramidal file and to the interneuron file.
LayersToFile(n) ==
    /\ parse.called = "none"
    /\ pc = << >>
    /\ Len(parse.snapshots) < MaxSnapshots
    /\ parse.n \in {0, n}
    /\ parse' = [parse EXCEPT
                    !.n = n,
                    !.snapshots = Append(@, [pyrs |-> pyrs, inhibs |-> inhibs]),
                    !.file_p = @ \o [k \in 1..n |-> pyramidal_data_extraction(k, pyrs[k])],
                    !.file_i = @ \o [k \in 1..n |-> interneuron_data_extraction(k, inhibs[k])]]
    /\ ParseFrame

\* NeuronParser.file_to_delta(file_name, mode) on a trace file that has been closed.
FileToDelta(mode) ==
    /\ parse.called = "none"
    /\ pc = << >>
    /\ parse.snapshots # << >>
    /\ LET r == file_to_delta(FileOf(mode), file_name_of(mode), mode)
       IN  parse' = [parse EXCEPT !.called = "file_to_delta", !.mode = mode,
                                  !.err = r.err, !.written = r.written]
    /\ ParseFrame

\* VisualExtractor.close: the interneuron file, then the pyramidal file, is converted
\* and then closed. The parser opens the file by name before it is closed, so it
\* reads the lines already flushed, the first `flushed` snapshots.
Close(flushed) ==
    /\ parse.called = "none"
    /\ pc = << >>
    /\ LET visible(mode) == SubSeq(FileOf(mode), 1, flushed * parse.n)
           ri == file_to_delta(visible("i"), file_name_of("i"), "i")
           rp == file_to_delta(visible("p"), file_name_of("p"), "p")
       IN  parse' = [parse EXCEPT
                        !.called = "close", !.mode = "both",
                        !.err = IF ri.err # "none" THEN ri.err ELSE rp.err,
                        !.written = IF ri.err # "none" THEN { }
                                    ELSE ri.written \cup rp.written]
    /\ ParseFrame

\* __zipped_delta_to_json called with the zipped deltas of a trace file and its
\* number of layers.
ZippedDeltaToJson(mode) ==
    /\ parse.called = "none"
    /\ pc = << >>
    /\ parse.snapshots # << >>
    /\ LET r == file_to_list_of_arrays(FileOf(mode))
           delta_array == [l \in DOMAIN r.arrays |-> calculate_deltas(r.arrays[l], mode)]
           num_layers == Len(r.arrays)
       IN  /\ r.err = "none"
           /\ parse' = [parse EXCEPT
                           !.called = "zipped_delta_to_json", !.mode = mode,
                           !.json = zipped_delta_to_json(
                                        zip_delta_array(num_layers, delta_array),
                                        num_layers, mode)]
    /\ ParseFrame

NextParse ==
    \/ ParseTrainStep
    \/ \E n \in Layers : LayersToFile(n)
    \/ \E mode \in Modes : FileToDelta(mode)
    \/ \E flushed \in 0..Len(parse.snapshots) : Close(flushed)
    \/ \E mode \in Modes : ZippedDeltaToJson(mode)
    \/ ApplyInputs
    \/ UpdateDend
    \/ UpdateFF
    \/ UpdateFB
    \/ Nudge
    \/ AdjustLatPI
    \/ AdjustPPFF
    \/ HookPost

SpecParse == Init /\ [][NextParse]_vars

\* C13: a call of file_to_delta on a trace file of L >= 1 layers and T >= 1 snapshots
\* returns without raising, having written the JSON file named after the trace file,
\* and close has converted both trace files.
C13_FileToDeltaCompletes ==
    /\ parse.called = "file_to_delta" =>
          /\ parse.err = "none"
          /\ parse.written = {json_file(file_name_of(parse.mode))}
    /\ (parse.called = "close" /\ parse.snapshots # << >>) =>
          /\ parse.err = "none"
          /\ parse.written = {json_file("_pyramidal.txt"), json_file("_interneuron.txt")}

\* The deltas the parser computes from the trace file of a mode: ParsedDeltas(mode)[l][k]
\* is the delta of layer l at snapshot k.
ParsedDeltas(mode) ==
    LET r == file_to_list_of_arrays(FileOf(mode))
    IN  [l \in DOMAIN r.arrays |-> calculate_deltas(r.arrays[l], mode)]

\* C15: the JSON built from the zipped deltas of num_layers layers and T snapshots has
\* exactly T records, record k (from 0) has time k, and its layers list holds for
\* every layer the entries of that layer at snapshot k and nothing else.
C15_JsonRecords ==
    parse.called = "zipped_delta_to_json" =>
        /\ Len(parse.json) = Len(parse.snapshots)
        /\ \A k \in DOMAIN parse.json :
              /\ parse.json[k].time = k - 1
              /\ Len(parse.json[k].layers) = parse.n
              /\ \A l \in 1..parse.n :
                    parse.json[k].layers[l] =
                       delta_to_entries(ParsedDeltas(parse.mode)[l][k], parse.mode)

\* previous - current of attribute attr of neuron j of layer l at snapshot k, as the
\* extractor saw the neuron (the first snapshot is its own predecessor).
AttrDelta(mode, l, j, k, attr) ==
    LET neuron(t) == IF mode = "p" THEN parse.snapshots[t].pyrs[l][j]
                     ELSE parse.snapshots[t].inhibs[l][j]
    IN  neuron(IF k = 1 THEN 1 ELSE k - 1)[attr] - neuron(k)[attr]

\* C19: every named field of every JSON entry is the delta of the same-named neuron
\* attribute: apical, basal, soma of apical_mp, basal_mp, soma_mp for a pyramidal
\* neuron, dend, soma of dend_mp, soma_mp for an interneuron.
C19_FieldRoundTrip ==
    parse.called = "zipped_delta_to_json" =>
        \A l \in 1..parse.n, k \in DOMAIN parse.snapshots :
            LET entries == delta_to_entries(ParsedDeltas(parse.mode)[l][k], parse.mode)
            IN  \A j \in DOMAIN entries :
                    IF parse.mode = "p"
                    THEN /\ entries[j].apical = AttrDelta("p", l, j, k, "apical_mp")
                         /\ entries[j].basal = AttrDelta("p", l, j, k, "basal_mp")
                         /\ entries[j].soma = AttrDelta("p", l, j, k, "soma_mp")
                    ELSE /\ entries[j].dend = AttrDelta("i", l, j, k, "dend_mp")
                         /\ entries[j].soma = AttrDelta("i", l, j, k, "soma_mp")

====
